---- MODULE Spec2Model ----
(***************************************************************************)
(* A model of metalsmith-permalinks (lib/index.js): the transform that     *)
(* computes a permalink for every markup document of a document set,       *)
(* renames the document, stages its family (co-located non-markup          *)
(* documents) under the new location and rewrites the document's contents. *)
(*                                                                         *)
(* Keys, paths and contents are strings; a string is a sequence of         *)
(* characters, so Len, \o and SubSeq apply to it.                          *)
(***************************************************************************)
EXTENDS Integers, Sequences, FiniteSets, TLC

(***************************************************************************)
(* Bounds of the model.                                                    *)
(***************************************************************************)
\* the documents handed to the transform over all its invocations
MaxDocs == 3
\* the invocations of one transform function
MaxInvocations == 2

(***************************************************************************)
(* JavaScript string primitives.                                           *)
(***************************************************************************)
CharAt(s, i) == SubSeq(s, i, i)

\* s.slice(n): the string without its first n characters
Slice(s, n) == SubSeq(s, n + 1, Len(s))

\* s.indexOf(sub) === 0
StartsWith(s, sub) == Len(sub) <= Len(s) /\ SubSeq(s, 1, Len(sub)) = sub

EndsWith(s, sub) ==
    Len(sub) <= Len(s) /\ SubSeq(s, Len(s) - Len(sub) + 1, Len(s)) = sub

\* the 1-based places where sub occurs in s
Occurrences(s, sub) ==
    {i \in 1..(Len(s) - Len(sub) + 1) : SubSeq(s, i, i + Len(sub) - 1) = sub}

Min(S) == CHOOSE x \in S : \A y \in S : x <= y
Max(S) == CHOOSE x \in S : \A y \in S : x >= y

\* s.includes(sub) for strings, also a regular expression of literal
\* characters tested against s
Contains(s, sub) == Occurrences(s, sub) # {}

\* the 1-based place of the last "/" of s, 0 when it has none
Places(s, c) == {i \in 1..Len(s) : CharAt(s, i) = c}
MaxOr0(P) == IF P = {} THEN 0 ELSE Max(P)
MinOr0(P) == IF P = {} THEN 0 ELSE Min(P)
LastSlash(s) == MaxOr0(Places(s, "/"))

\* the 1-based place of the first occurrence of sub in s, 0 for none
IndexOf(s, sub) ==
    IF Occurrences(s, sub) = {} THEN 0 ELSE Min(Occurrences(s, sub))

\* s with the occurrence of from at place n (if n > 0) replaced by to
ReplaceAt(s, n, from, to) ==
    IF n = 0 THEN s
    ELSE SubSeq(s, 1, n - 1) \o to \o SubSeq(s, n + Len(from), Len(s))

\* s.replace(from, to) with a string pattern: the first occurrence only
ReplaceFirst(s, from, to) == ReplaceAt(s, IndexOf(s, from), from, to)

\* s.replace(/from/g, to), from a single literal character
RECURSIVE ReplaceChar(_, _, _)
ReplaceChar(s, from, to) ==
    IF s = "" THEN ""
    ELSE (IF CharAt(s, 1) = from THEN to ELSE CharAt(s, 1))
           \o ReplaceChar(Slice(s, 1), from, to)

(***************************************************************************)
(* Node's path module, posix flavour.                                      *)
(***************************************************************************)
\* the segments of a path between its "/" characters
RECURSIVE Split(_)
SplitAt(s, n) ==
    IF n = 0 THEN <<s>> ELSE <<SubSeq(s, 1, n - 1)>> \o Split(Slice(s, n))
Split(s) == SplitAt(s, MinOr0(Places(s, "/")))

\* normalizeString: drops empty and "." segments, resolves ".."
RECURSIVE NormSegs(_, _, _)
\* acc after the segment h
NormSeg(h, acc, abs) ==
    IF h = "" \/ h = "." THEN acc
    ELSE IF h # ".." THEN Append(acc, h)
         ELSE IF acc # <<>> /\ acc[Len(acc)] # ".."
              THEN SubSeq(acc, 1, Len(acc) - 1)
              ELSE IF abs THEN acc ELSE Append(acc, h)

NormSegs(segs, acc, abs) ==
    IF segs = <<>> THEN acc
    ELSE NormSegs(Tail(segs), NormSeg(Head(segs), acc, abs), abs)

RECURSIVE Glue(_)
Glue(segs) ==
    IF segs = <<>> THEN ""
    ELSE IF Len(segs) = 1 THEN segs[1]
         ELSE segs[1] \o "/" \o Glue(Tail(segs))

\* the end of path.normalize, for the normalized segments glued as body
Normalized(body, abs, trail) ==
    IF abs THEN "/" \o body \o (IF body # "" /\ trail THEN "/" ELSE "")
    ELSE IF body = "" THEN (IF trail THEN "./" ELSE ".")
         ELSE body \o (IF trail THEN "/" ELSE "")

\* path.normalize
Normalize(p) ==
    IF p = "" THEN "."
    ELSE Normalized(Glue(NormSegs(Split(p), <<>>, CharAt(p, 1) = "/")),
                    CharAt(p, 1) = "/", CharAt(p, Len(p)) = "/")

\* path.join(a, b): the non-empty arguments joined by "/", normalized
PathJoin(a, b) ==
    Normalize(IF a = "" THEN b ELSE IF b = "" THEN a ELSE a \o "/" \o b)

\* the part of p before its "/" at place n
DirnameAt(p, n) ==
    IF n = 0 THEN "." ELSE IF n = 1 THEN "/" ELSE SubSeq(p, 1, n - 1)

\* path.dirname of a path without trailing slashes
Dirname(p) == DirnameAt(p, LastSlash(p))

\* the last segment of a path without trailing slashes
LastSegment(p) == Slice(p, LastSlash(p))

\* path.extname: from the last "." of the last segment, "" when the segment
\* has no "." or only a leading one
ExtAt(b, n) == IF n <= 1 THEN "" ELSE Slice(b, n - 1)
Extname(p) == ExtAt(LastSegment(p), MaxOr0(Places(LastSegment(p), ".")))

\* the segment b without the extension ext
StripExt(b, ext) ==
    IF ext # "" /\ b # ext /\ EndsWith(b, ext)
    THEN SubSeq(b, 1, Len(b) - Len(ext))
    ELSE b

\* path.basename(p, ext)
Basename(p, ext) == StripExt(LastSegment(p), ext)

(***************************************************************************)
(* JavaScript values of metadata fields and options.                       *)
(***************************************************************************)
\* every value carries its type t, its string or boolean text v and its
\* array elements a
Undefined == [t |-> "undefined", v |-> "", a |-> <<>>]
False     == [t |-> "boolean", v |-> "false", a |-> <<>>]
True      == [t |-> "boolean", v |-> "true", a |-> <<>>]
Str(s)    == [t |-> "string", v |-> s, a |-> <<>>]
Arr(a)    == [t |-> "array", v |-> "", a |-> a]

RECURSIVE JoinComma(_)
JoinComma(a) ==
    IF a = <<>> THEN ""
    ELSE IF Len(a) = 1 THEN a[1]
         ELSE a[1] \o "," \o JoinComma(Tail(a))

\* String(val)
JsString(val) ==
    IF val.t = "array" THEN JoinComma(val.a)
    ELSE IF val.t = "undefined" THEN "undefined"
         ELSE val.v

\* the truthiness of a value
Truthy(val) ==
    ~(val.t = "undefined" \/ val = False \/ (val.t = "string" /\ val.v = ""))

(***************************************************************************)
(* An object with string keys, in insertion order: a sequence of entries   *)
(* [k |-> key, v |-> value] with no key twice.                             *)
(***************************************************************************)
Keys(m) == [n \in 1..Len(m) |-> m[n].k]
KeySet(m) == {m[n].k : n \in 1..Len(m)}
Values(m) == {m[n].v : n \in 1..Len(m)}
Has(m, k) == k \in KeySet(m)
Get(m, k) == m[CHOOSE n \in 1..Len(m) : m[n].k = k].v
\* m[k] = v: an existing key keeps its place, a new key is appended
Put(m, k, v) ==
    IF Has(m, k)
    THEN [n \in 1..Len(m) |-> IF m[n].k = k THEN [k |-> k, v |-> v] ELSE m[n]]
    ELSE Append(m, [k |-> k, v |-> v])
\* delete m[k]
Del(m, k) == SelectSeq(m, LAMBDA e : e.k # k)

(***************************************************************************)
(* slug and the pattern language (replace, params, substitute).            *)
(***************************************************************************)
Lower == [c \in {"A", "B", "M", "P"} |->
            CASE c = "A" -> "a" [] c = "B" -> "b" [] c = "M" -> "m" [] c = "P" -> "p"]
SlugKept == {"a", "b", "c", "d", "e", "g", "i", "l", "m", "n", "o", "p", "r",
             "s", "t", "u", "w", "x", "y", "-", "_", "."}
WordChars == (SlugKept \ {"-", "."}) \cup DOMAIN Lower

\* slugify(text, {lower: true}): lower case, "-" for a space, other
\* characters dropped
slugChar(c) ==
    IF c \in DOMAIN Lower THEN Lower[c]
    ELSE IF c = " " THEN "-"
         ELSE IF c \in SlugKept THEN c ELSE ""

RECURSIVE slug(_)
slug(text) ==
    IF text = "" THEN "" ELSE slugChar(CharAt(text, 1)) \o slug(Slice(text, 1))

\* the length of the run of word characters at the start of s
RECURSIVE WordLen(_)
WordLen(s) ==
    IF s = "" \/ CharAt(s, 1) \notin WordChars THEN 0
    ELSE 1 + WordLen(Slice(s, 1))

\* params(pattern): the identifiers of the :identifier placeholders, in order
RECURSIVE params(_)
\* n: the length of the identifier after a ":" at the start of pattern
paramsAt(pattern, n) ==
    IF n = 0 THEN params(Slice(pattern, 1))
    ELSE <<SubSeq(pattern, 2, n + 1)>> \o params(Slice(pattern, n + 1))
params(pattern) ==
    IF pattern = "" THEN <<>>
    ELSE paramsAt(pattern, IF CharAt(pattern, 1) = ":"
                           THEN WordLen(Slice(pattern, 1)) ELSE 0)

\* substitute(pattern, ret): every :identifier replaced by ret's value for it
RECURSIVE substitute(_, _)
substituteAt(pattern, ret, n) ==
    IF n = 0 THEN CharAt(pattern, 1) \o substitute(Slice(pattern, 1), ret)
    ELSE (IF Has(ret, SubSeq(pattern, 2, n + 1))
          THEN Get(ret, SubSeq(pattern, 2, n + 1))
          ELSE SubSeq(pattern, 1, n + 1))
           \o substitute(Slice(pattern, n + 1), ret)
substitute(pattern, ret) ==
    IF pattern = "" THEN ""
    ELSE substituteAt(pattern, ret, IF CharAt(pattern, 1) = ":"
                                    THEN WordLen(Slice(pattern, 1)) ELSE 0)

\* data[key] for a metadata field name
Field(data, key) == IF key \in DOMAIN data THEN data[key] ELSE Undefined

\* the loop of replace over the placeholder keys: the table of resolved
\* values, not ok (null) on the first missing or empty value
RECURSIVE replaceKeys(_, _, _)
replaceKey(keys, data, ret, val) ==
    IF ~Truthy(val) \/ val = Arr(<<>>) THEN [ok |-> FALSE, ret |-> <<>>]
    ELSE replaceKeys(Tail(keys), data, Put(ret, Head(keys), slug(JsString(val))))
replaceKeys(keys, data, ret) ==
    IF keys = <<>> THEN [ok |-> TRUE, ret |-> ret]
    ELSE replaceKey(keys, data, ret, Field(data, Head(keys)))

replaced(pattern, r) ==
    IF ~r.ok THEN Undefined ELSE Str(substitute(pattern, r.ret))

\* replace(pattern, data, options): a path string, or Undefined for null
replace(pattern, data) ==
    IF ~Truthy(pattern) THEN Undefined
    ELSE replaced(pattern.v, replaceKeys(params(pattern.v), data, <<>>))

(***************************************************************************)
(* html, resolve, family, folder, relink.                                  *)
(***************************************************************************)
html(str) == Extname(str) = ".html"

\* resolve(str): the structural permalink of a key
\* a resolve that takes index for a base name like any other
resolveIndexToo(ret, base) == PathJoin(ret, base)
resolveFrom(ret, base) == IF base # "index" THEN PathJoin(ret, base) ELSE ret
resolve(str) == resolveFrom(Dirname(str), Basename(str, Extname(str)))

\* the entries kept of a document set, keyed by what follows the first n
\* characters of their keys
Suffixes(kept, n) ==
    [m \in 1..Len(kept) |-> [k |-> Slice(kept[m].k, n), v |-> kept[m].v]]

\* the loop of family and folder: the entries of files under the prefix,
\* the document itself and markup documents left out
Under(file, files, prefix) ==
    Suffixes(SelectSeq(files, LAMBDA e :
                 e.k # file /\ StartsWith(e.k, prefix) /\ ~html(e.k)),
             Len(prefix))

\* dir of family and folder: "" for "."
dirOf(d) == IF d = "." THEN "" ELSE d

\* family(file, files): the relative: true policy
family(file, files) == Under(file, files, dirOf(Dirname(file)))

\* folder(file, files): the relative: "folder" policy, under
\* sharedPath = path.join(dir, bn, "/")
folder(file, files) ==
    Under(file, files,
          PathJoin(PathJoin(dirOf(Dirname(file)), Basename(file, Extname(file))),
                   "/"))

\* relink(data, moved): for every key "to" of moved, with from = moved[to],
\* content.replace(from, to)
RECURSIVE relink(_, _)
relink(content, moved) ==
    IF moved = <<>> THEN content
    ELSE relink(ReplaceFirst(content, moved[1].v, moved[1].k), Tail(moved))

(***************************************************************************)
(* Options, linksets and the documents the model draws its inputs from.    *)
(***************************************************************************)
Linkset(pattern, match, relative, isDefault) ==
    [pattern |-> pattern, match |-> match, relative |-> relative,
     isDefault |-> isDefault]

\* the options as the caller writes them; relative Undefined: not given
BaseOptions ==
    [pattern |-> Undefined, relative |-> Undefined, linksets |-> <<>>,
     indexFile |-> Undefined, unique |-> FALSE, duplicatesFail |-> FALSE,
     fileFilter |-> Undefined, ignoreFilter |-> Undefined,
     customSlug |-> Undefined]

BlogLinkset ==
    Linkset(Str("posts/:title"), <<[k |-> "collection", v |-> "blog"]>>,
            True, FALSE)
PagesLinkset ==
    Linkset(Str("pages/:slug"),
            <<[k |-> "collection", v |-> "pages"], [k |-> "title", v |-> "o"]>>,
            Undefined, FALSE)
CatchAllLinkset == Linkset(Undefined, <<>>, Str("folder"), FALSE)
DefaultLinkset == Linkset(Str("misc/:title"), <<[k |-> "title", v |-> "zz"]>>,
                          False, TRUE)

\* the configurations plugin is constructed with; a string is the shorthand
\* for {pattern: string}
RawOptions ==
    { BaseOptions,
      Str(":title"),
      [BaseOptions EXCEPT !.unique = TRUE],
      [BaseOptions EXCEPT !.duplicatesFail = TRUE],
      [BaseOptions EXCEPT !.unique = TRUE, !.duplicatesFail = TRUE],
      [BaseOptions EXCEPT !.relative = Str("folder")],
      [BaseOptions EXCEPT !.relative = False, !.unique = TRUE],
      [BaseOptions EXCEPT !.indexFile = Str("index.php"), !.unique = TRUE],
      [BaseOptions EXCEPT !.pattern = Str("blog/:title"),
                          !.customSlug = Str("page")],
      [BaseOptions EXCEPT !.fileFilter = Str("blog")],
      [BaseOptions EXCEPT !.ignoreFilter = Str("draft"),
                          !.fileFilter = Str("blog")],
      [BaseOptions EXCEPT !.linksets = <<BlogLinkset, PagesLinkset>>],
      [BaseOptions EXCEPT !.linksets = <<PagesLinkset, DefaultLinkset,
                                         CatchAllLinkset>>,
                          !.customSlug = Str("page")],
      [BaseOptions EXCEPT !.linksets = <<DefaultLinkset, BlogLinkset>>,
                          !.unique = TRUE] }

\* the configurations of the transform that is invoked more than once
RepeatOptions ==
    { BaseOptions,
      [BaseOptions EXCEPT !.relative = Str("folder"), !.unique = TRUE] }

Doc(key, contents, permalink, title, collection, path) ==
    [key |-> key,
     data |-> [path |-> path, contents |-> contents, permalink |-> permalink,
               slug |-> Undefined, title |-> title, collection |-> collection]]

\* the documents a host hands to the transform, each a distinct object
Pool ==
    << Doc("index.html", "home", Undefined, Str("Home"), Undefined, Undefined),
       Doc("about.html", "see news/post.png", Undefined, Str("About"),
           Arr(<<"pages">>), Undefined),
       Doc("about/index.html", "old", Undefined, Undefined, Undefined,
           Str("about/index.html")),
       Doc("blog/post.html", "img:/post.png", Undefined, Str("My Post"),
           Str("blog"), Str("blog/post.html")),
       Doc("blog/post.png", "PNG", Undefined, Undefined, Undefined,
           Str("blog/post.png")),
       Doc("news/post.png", "PNG", Undefined, Undefined, Undefined, Undefined),
       Doc("blog/post.html", "img:news/post.png img:/post.png", Str("news"),
           Undefined, Arr(<<"blog", "pages">>), Undefined),
       Doc("a.html", "a", Str("news"), Str("A"), Str("pages"),
           Str("drafts/a.html")),
       Doc("c.html", "c", False, Str("C"), Undefined, Undefined) >>

DocIds == 1..Len(Pool)

\* the document sets of n documents: distinct objects under distinct keys,
\* in any order
RECURSIVE DocSeqs(_)
DocSeqs(n) ==
    IF n = 0 THEN {<<>>}
    ELSE {Append(q, id) : q \in DocSeqs(n - 1), id \in DocIds}

DocSets(n) ==
    {q \in DocSeqs(n) :
        \A a, b \in 1..n : a # b => Pool[q[a]].key # Pool[q[b]].key}

\* normalize(options)
normalize(options) ==
    LET o == IF "t" \in DOMAIN options
             THEN [BaseOptions EXCEPT !.pattern = options]
             ELSE options
    IN  [o EXCEPT !.relative = IF o.relative.t = "undefined" THEN True
                                ELSE o.relative]

(***************************************************************************)
(* plugin(options): the linkset resolver and the uniqueness resolver.      *)
(***************************************************************************)
\* what the pass reads of the linkset it applies; ix is the linkset's place
\* in options.linksets, 0 for the global options object
Setting(ix, ls) == [ix |-> ix, pattern |-> ls.pattern, relative |-> ls.relative]

\* the linkset at place n, the global options for n = 0
settingAt(options, n) ==
    IF n = 0 THEN Setting(0, options) ELSE Setting(n, options.linksets[n])

\* defaultLinkset: the first linkset marked isDefault, else the options
defaultLinkset(options) ==
    settingAt(options,
              MinOr0({n \in 1..Len(options.linksets) : options.linksets[n].isDefault}))

\* one step of the reduce of findLinkset for the field key, whose string
\* source was compiled to a regular expression, val being file[key]:
\* "true", "false", or "throw" where String.prototype.includes is handed
\* the regular expression
matchKey(source, val) ==
    IF Contains(JsString(val), source) THEN "true"
    ELSE IF Truthy(val) /\ val.t = "string" THEN "throw"
         ELSE "false"

\* the reduce over Object.keys(ls.match), from true
RECURSIVE matchAll(_, _)
matchRest(match, file, r) ==
    IF r = "true" THEN matchAll(Tail(match), file) ELSE r
matchAll(match, file) ==
    IF match = <<>> THEN "true"
    ELSE matchRest(match, file, matchKey(match[1].v, Field(file, match[1].k)))

\* linksets.find from place n on, then defaultLinkset
RECURSIVE findFrom(_, _, _)
findNext(options, n, file, r) ==
    IF r = "throw" THEN [threw |-> TRUE, set |-> Setting(0, options)]
    ELSE IF r = "true"
         THEN [threw |-> FALSE, set |-> Setting(n, options.linksets[n])]
         ELSE findFrom(options, n + 1, file)
findFrom(options, n, file) ==
    IF n > Len(options.linksets)
    THEN [threw |-> FALSE, set |-> defaultLinkset(options)]
    ELSE findNext(options, n, file, matchAll(options.linksets[n].match, file))

findLinkset(options, file) == findFrom(options, 1, file)

Digit == <<"0", "1", "2", "3", "4", "5", "6", "7", "8", "9">>
RECURSIVE NumStr(_)
NumStr(n) ==
    IF n < 10 THEN Digit[n + 1] ELSE NumStr(n \div 10) \o Digit[(n % 10) + 1]

\* the candidate key of defaultUniquePath after counter increments
candidate(targetPath, counter, options) ==
    PathJoin(targetPath \o (IF counter = 0 THEN "" ELSE "-" \o NumStr(counter)),
             IF Truthy(options.indexFile) THEN options.indexFile.v
             ELSE "index.html")

\* the do/while of defaultUniquePath: the key it returns, or the error it
\* hands to done, whose (undefined) result it then returns
RECURSIVE uniqueLoop(_, _, _, _)
\* a loop that tests the candidate only after it has moved on to the next
uniqueStepLate(targetPath, counter, files, options, target) ==
    IF options.duplicatesFail /\ Has(files, target)
    THEN [target |-> Undefined,
          err |-> Str("Permalinks: Clash with another target file " \o target)]
    ELSE IF options.unique /\ Has(files, target)
         THEN uniqueLoop(targetPath, counter + 2, files, options)
         ELSE [target |-> Str(target), err |-> Undefined]
uniqueStep(targetPath, counter, files, options, target) ==
    IF options.duplicatesFail /\ Has(files, target)
    THEN [target |-> Undefined,
          err |-> Str("Permalinks: Clash with another target file " \o target)]
    ELSE IF options.unique /\ Has(files, target)
         THEN uniqueLoop(targetPath, counter + 1, files, options)
         ELSE [target |-> Str(target), err |-> Undefined]
uniqueLoop(targetPath, counter, files, options) ==
    uniqueStep(targetPath, counter, files, options,
               candidate(targetPath, counter, options))

defaultUniquePath(targetPath, files, options) ==
    uniqueLoop(targetPath, 0, files, options)

\* the staging loop over the family: dupes[rel] = fam[key]
RECURSIVE stage(_, _, _)
stage(dupes, fam, ppath) ==
    IF fam = <<>> THEN dupes
    ELSE stage(Put(dupes, PathJoin(ppath, fam[1].k), fam[1].v), Tail(fam), ppath)

\* the moved table of the staging loop: moved[key] = rel
movedTable(fam, ppath) ==
    [n \in 1..Len(fam) |-> [k |-> fam[n].k, v |-> PathJoin(ppath, fam[n].k)]]

\* a rename that forgets the delete
renameKeepingOld(files, file, out, doc) == Put(files, out, doc)
\* delete files[file]; files[out] = data
rename(files, file, out, doc) == Put(Del(files, file), out, doc)

\* data.path for p, the target directory with "" for "." and "/" for "\"
pathSuffixed(p) == IF ~EndsWith(p, "html") THEN p \o "/index.html" ELSE p
pathData(ppath) ==
    pathSuffixed(IF ppath = "." THEN "" ELSE ReplaceChar(ppath, "\\", "/"))

\* RegExp.prototype.test of a filter against data.path
filterTest(filter, data) == Contains(JsString(data.path), filter.v)

\* whether the filters let the document through
inDirectories(options, data) ==
    IF options.ignoreFilter.t # "undefined"
    THEN ~filterTest(options.ignoreFilter, data)
    ELSE IF options.fileFilter.t # "undefined"
         THEN filterTest(options.fileFilter, data)
         ELSE TRUE

\* data.slug = data.slug || options.customSlug(data); the function of the
\* configurations returns its fixed string
withSlug(options, data) ==
    IF options.customSlug.t # "undefined" /\ ~Truthy(data.slug)
    THEN [data EXCEPT !.slug = options.customSlug]
    ELSE data

NoEntry ==
    [ix |-> -1, ppath |-> "", out |-> Undefined, fam |-> <<>>, moved |-> <<>>,
     err |-> Undefined, relative |-> Undefined]

\* what a callback that returns early leaves
unmoved(kind, files, data, dupes) ==
    [kind |-> kind, files |-> files, data |-> data, dupes |-> dupes,
     e |-> NoEntry]

\* the end of the callback: the staging of the family, data.path, relink,
\* and the rename, made being what makeUnique gave
relocate(file, files, data, dupes, linkset, fam, ppath, made) ==
    [kind |-> "relocated",
     files |-> rename(files, file, JsString(made.target), Get(files, file)),
     data |-> [data EXCEPT !.path = Str(pathData(ppath)),
                           !.contents = relink(data.contents,
                                               movedTable(fam, ppath))],
     dupes |-> stage(dupes, fam, ppath),
     e |-> [ix |-> linkset.ix, ppath |-> ppath, out |-> made.target,
            fam |-> fam, moved |-> movedTable(fam, ppath), err |-> made.err,
            relative |-> linkset.relative]]

\* the callback once ppath and the family are known: makeUnique
withPath(file, files, data, dupes, options, linkset, fam, ppath) ==
    relocate(file, files, data, dupes, linkset, fam, ppath,
             defaultUniquePath(ppath, files, options))

\* replace(...) || resolve(file)
orResolve(r, file) == IF Truthy(r) THEN r.v ELSE resolve(file)

\* the family by the linkset's relative setting
collect(relative, file, files) ==
    IF relative = True THEN family(file, files)
    ELSE IF relative = Str("folder") THEN folder(file, files)
         ELSE <<>>

\* the callback once findLinkset has returned or thrown
withLinkset(file, files, data, dupes, options, found) ==
    IF found.threw THEN unmoved("thrown", files, data, dupes)
    ELSE withPath(file, files, data, dupes, options, found.set,
                  collect(found.set.relative, file, files),
                  IF data.permalink.t # "undefined"
                  THEN JsString(data.permalink)
                  ELSE orResolve(replace(found.set.pattern, data), file))

\* the callback once the filters and customSlug are through
filtered(file, files, data, dupes, options) ==
    IF ~html(file) \/ data.permalink = False
    THEN unmoved("skipped", files, data, dupes)
    ELSE withLinkset(file, files, data, dupes, options,
                     findLinkset(options, data))

\* the callback of the pass for one key of the snapshot: what becomes of the
\* document set, the document's metadata and the pending moves
callback(file, files, data, dupes, options) ==
    IF ~inDirectories(options, data)
    THEN unmoved("ignored", files, data, dupes)
    ELSE filtered(file, files, withSlug(options, data), dupes, options)

(***************************************************************************)
(* The state: one transform function returned by plugin(options), the      *)
(* document set of the invocation under way, and the host's event loop.    *)
(***************************************************************************)
VARIABLES
    options,    \* the normalized options the plugin closes over
    dupes,      \* the pending moves the plugin closes over: key -> document
    files,      \* the document set of the latest invocation: key -> document
    data,       \* the metadata and contents of every document object
    pc,         \* "idle" outside the transform, "pass", "flush" inside it
    keys,       \* Object.keys(files), taken when the pass starts
    i,          \* the place of the pass in keys
    flushKeys,  \* Object.keys(dupes), taken when the flush starts
    j,          \* the place of the flush in flushKeys
    pending,    \* the callbacks setImmediate has scheduled, by invocation
    doneCalls,  \* the calls of the completion callbacks so far
    inv,        \* the invocations of the transform so far
    budget,     \* the invocations the host has yet to make
    used,       \* the documents handed to the transform so far
    thrown,     \* whether the latest invocation ended by an exception
    files0,     \* history: the document set as the latest invocation got it
    data0,      \* history: the documents' data when that invocation started
    log,        \* history: what the pass did for each key it has visited
    atClash     \* history: the state when a clash was first detected, if any

vars == <<options, dupes, files, data, pc, keys, i, flushKeys, j, pending,
          doneCalls, inv, budget, used, thrown, files0, data0, log, atClash>>

\* the state after plugin(opts), the host about to run the transform
\* runs times
Constructed(opts, runs) ==
    /\ options = normalize(opts)
    /\ budget = runs
    /\ dupes = <<>>
    /\ files = <<>>
    /\ data = [id \in DocIds |-> Pool[id].data]
    /\ pc = "idle"
    /\ keys = <<>>
    /\ i = 1
    /\ flushKeys = <<>>
    /\ j = 1
    /\ pending = <<>>
    /\ doneCalls = <<>>
    /\ inv = 0
    /\ used = {}
    /\ thrown = FALSE
    /\ files0 = <<>>
    /\ data0 = data
    /\ log = <<>>
    /\ atClash = <<>>

\* one build: the transform is invoked once
Init == \E o \in RawOptions : Constructed(o, 1)

\* the same transform function invoked again and again
InitTwice == \E o \in RepeatOptions : Constructed(o, MaxInvocations)

\* the host calls the transform with a document set: setImmediate(done),
\* then Object.keys(files) for the pass
Invoke ==
    /\ pc = "idle"
    /\ budget > 0
    /\ budget' = budget - 1
    /\ \E n \in 0..(MaxDocs - Cardinality(used)) : \E q \in DocSets(n) :
         /\ \A m \in 1..n : q[m] \notin used
         /\ files' = [m \in 1..n |-> [k |-> Pool[q[m]].key, v |-> q[m]]]
         /\ used' = used \cup {q[m] : m \in 1..n}
    /\ pending' = Append(pending, inv + 1)
    /\ inv' = inv + 1
    /\ keys' = Keys(files')
    /\ i' = 1
    /\ pc' = "pass"
    /\ thrown' = FALSE
    /\ files0' = files'
    /\ data0' = data
    /\ log' = <<>>
    /\ atClash' = <<>>
    /\ UNCHANGED <<options, dupes, data, flushKeys, j, doneCalls>>

\* the forEach callback for the next key of the snapshot
ProcessFile ==
    /\ pc = "pass"
    /\ i <= Len(keys)
    /\ \E file \in {keys[i]} : \E doc \in {Get(files, file)} :
       \E r \in {callback(file, files, data[doc], dupes, options)} :
           /\ files' = r.files
           /\ data' = [data EXCEPT ![doc] = r.data]
           /\ dupes' = r.dupes
           /\ doneCalls' = IF r.e.err.t # "undefined"
                           THEN Append(doneCalls, [inv |-> inv, err |-> r.e.err])
                           ELSE doneCalls
           /\ atClash' = IF r.e.err.t # "undefined" /\ atClash = <<>>
                         THEN <<[files |-> files, dupes |-> dupes,
                                 data |-> [data EXCEPT ![doc].slug = r.data.slug]]>>
                         ELSE atClash
           /\ log' = Append(log, [file |-> file, doc |-> doc, kind |-> r.kind,
                                  before |-> data[doc].contents,
                                  after |-> r.data.contents,
                                  keysBefore |-> KeySet(files),
                                  ix |-> r.e.ix, ppath |-> r.e.ppath,
                                  out |-> r.e.out, fam |-> r.e.fam,
                                  moved |-> r.e.moved, err |-> r.e.err,
                                  relative |-> r.e.relative])
           /\ IF r.kind = "thrown"
              THEN pc' = "idle" /\ thrown' = TRUE /\ i' = i
              ELSE pc' = pc /\ thrown' = thrown /\ i' = i + 1
    /\ UNCHANGED <<options, keys, flushKeys, j, pending, inv, budget, used,
                   files0, data0>>

\* the pass is over: Object.keys(dupes) for the flush
BeginFlush ==
    /\ pc = "pass"
    /\ i > Len(keys)
    /\ flushKeys' = Keys(dupes)
    /\ j' = 1
    /\ pc' = "flush"
    /\ UNCHANGED <<options, dupes, files, data, keys, i, pending, doneCalls,
                   inv, budget, used, thrown, files0, data0, log, atClash>>

\* files[dupe] = dupes[dupe] for the next pending move
FlushStep ==
    /\ pc = "flush"
    /\ j <= Len(flushKeys)
    /\ files' = Put(files, flushKeys[j], Get(dupes, flushKeys[j]))
    /\ j' = j + 1
    /\ UNCHANGED <<options, dupes, data, pc, keys, i, flushKeys, pending,
                   doneCalls, inv, budget, used, thrown, files0, data0, log, atClash>>

\* the transform returns to the host
Return ==
    /\ pc = "flush"
    /\ j > Len(flushKeys)
    /\ pc' = "idle"
    /\ UNCHANGED <<options, dupes, files, data, keys, i, flushKeys, j, pending,
                   doneCalls, inv, budget, used, thrown, files0, data0, log, atClash>>

\* the event loop runs the oldest callback setImmediate scheduled: done()
RunImmediate ==
    /\ pc = "idle"
    /\ pending # <<>>
    /\ doneCalls' = Append(doneCalls, [inv |-> Head(pending), err |-> Undefined])
    /\ pending' = Tail(pending)
    /\ UNCHANGED <<options, dupes, files, data, pc, keys, i, flushKeys, j, inv, budget,
                   used, thrown, files0, data0, log, atClash>>

Next ==
    \/ Invoke
    \/ ProcessFile
    \/ BeginFlush
    \/ FlushStep
    \/ Return
    \/ RunImmediate

Spec == Init /\ [][Next]_vars

SpecTwice == InitTwice /\ [][Next]_vars

(***************************************************************************)
(* Vocabulary of the properties.                                           *)
(***************************************************************************)
\* the transform has returned normally to the host
Returned == pc = "idle" /\ inv > 0 /\ ~thrown

\* the transform is over and every scheduled callback has run
Finished == pc = "idle" /\ inv > 0 /\ pending = <<>>

\* the places of the log where a markup document was relocated
Relocated == {n \in 1..Len(log) : log[n].kind = "relocated"}

\* the keys under which the document set holds the document
KeysOf(doc) == {k \in KeySet(files) : Get(files, k) = doc}

\* the documents the pass moved: relocated, or staged as a family member
MovedDocs ==
    {log[n].doc : n \in Relocated}
        \cup UNION {Values(log[n].fam) : n \in Relocated}

\* the keys the pass staged family members under
StagedKeys == UNION {Values(log[n].moved) : n \in Relocated}

\* no pattern, no linksets, no filters, the default index file, neither
\* unique nor duplicatesFail
PlainOptions ==
    /\ options.pattern = Undefined
    /\ options.linksets = <<>>
    /\ options.indexFile = Undefined
    /\ options.fileFilter = Undefined
    /\ options.ignoreFilter = Undefined
    /\ ~options.unique
    /\ ~options.duplicatesFail

\* no document of the set carries a permalink field
NoPermalinkField ==
    \A n \in 1..Len(files0) : data0[files0[n].v].permalink = Undefined

\* <dir>/<base> for a key <dir>/<base>.html
Stem(key) == SubSeq(key, 1, Len(key) - Len(".html"))

\* the markup documents of the set as the transform got it, the root index
\* aside, whose base name is not index
Pages ==
    {n \in 1..Len(files0) :
        /\ EndsWith(files0[n].k, ".html")
        /\ files0[n].k # "index.html"
        /\ ~EndsWith(files0[n].k, "/index.html")}

RootIndex == {n \in 1..Len(files0) : files0[n].k = "index.html"}

\* the document is stored under the key and path is its path metadata
StoredAs(doc, key, path) ==
    /\ Has(files, key)
    /\ Get(files, key) = doc
    /\ data[doc].path = Str(path)

FieldMatches(m, file) ==
    \/ Contains(JsString(Field(file, m.k)), m.v)
    \/ /\ Field(file, m.k).t = "array"
       /\ \E n \in 1..Len(Field(file, m.k).a) : Field(file, m.k).a[n] = m.v

LinksetMatches(ls, file) ==
    \A n \in 1..Len(ls.match) : FieldMatches(ls.match[n], file)

SelectedLinkset(file) ==
    IF \E n \in 1..Len(options.linksets) : LinksetMatches(options.linksets[n], file)
    THEN Min({n \in 1..Len(options.linksets) :
                 LinksetMatches(options.linksets[n], file)})
    ELSE MinOr0({n \in 1..Len(options.linksets) : options.linksets[n].isDefault})

(***************************************************************************)
(* C2: for every document that reaches findLinkset, findLinkset returns    *)
(* the first linkset in configured order all of whose match fields match   *)
(* the document, else the first linkset marked isDefault, else the global  *)
(* options; the result is a function of the document and the linksets      *)
(* alone.                                                                  *)
(***************************************************************************)
C2_FirstMatchingLinkset ==
    \A n \in 1..Len(log) :
        log[n].kind \in {"relocated", "thrown"} =>
            /\ log[n].kind = "relocated"
            /\ log[n].ix = SelectedLinkset(data[log[n].doc])

(***************************************************************************)
(* C3: with unique: true, duplicatesFail unset and the default resolver,   *)
(* the output key of a document with target directory T is                 *)
(* join(T, indexFile) if the document set lacks that key at that moment,   *)
(* else join(T-n, indexFile) for the smallest n >= 1 whose key it lacks;   *)
(* the key is never one the set already holds; two documents that resolve  *)
(* to the same T, handled one after the other on a set that holds neither  *)
(* join(T, indexFile) nor join(T-1, indexFile), get these two keys in      *)
(* this order, and no relocated document is overwritten during the pass    *)
(* (nor by the flush, with the default index file).                        *)
(***************************************************************************)
UniqueOptions == options.unique /\ ~options.duplicatesFail

IndexFile ==
    IF options.indexFile = Undefined THEN "index.html" ELSE options.indexFile.v

\* join(T, indexFile) for n = 0, join(T-n, indexFile) for n >= 1
Numbered(T, n) ==
    IF n = 0 THEN PathJoin(T, IndexFile)
    ELSE PathJoin(T \o "-" \o NumStr(n), IndexFile)

FreeNumbers(T, present) ==
    {n \in 0..Cardinality(present) : Numbered(T, n) \notin present}

C3_UniqueNumbering ==
    UniqueOptions =>
        /\ \A n \in Relocated :
             /\ log[n].out.t = "string"
             /\ log[n].out.v \notin log[n].keysBefore
             /\ log[n].out.v =
                  Numbered(log[n].ppath,
                           Min(FreeNumbers(log[n].ppath, log[n].keysBefore)))
        /\ \A p, q \in Relocated :
             (/\ p < q
              /\ Relocated \cap 1..q = {p, q}
              /\ log[p].ppath = log[q].ppath
              /\ Numbered(log[p].ppath, 0) \notin KeySet(files0)
              /\ Numbered(log[p].ppath, 1) \notin KeySet(files0))
             => /\ log[p].out.v = Numbered(log[p].ppath, 0)
                /\ log[q].out.v = Numbered(log[p].ppath, 1)
        /\ (pc = "pass" \/ options.indexFile = Undefined) =>
             \A n \in Relocated :
                 /\ Has(files, log[n].out.v)
                 /\ Get(files, log[n].out.v) = log[n].doc

\* two documents resolved to news: one under news/index.html, the other
\* under news-1/index.html, after a pass that also renumbered a document
\* whose first candidate was taken
C3_Witness ==
    /\ Finished /\ UniqueOptions /\ ~thrown
    /\ \E p, q \in Relocated :
         /\ p < q
         /\ log[p].ppath = "news" /\ log[q].ppath = "news"
         /\ log[p].out = Str("news/index.html")
         /\ log[q].out = Str("news-1/index.html")
         /\ KeysOf(log[p].doc) = {"news/index.html"}
         /\ KeysOf(log[q].doc) = {"news-1/index.html"}

(***************************************************************************)
(* C4: when duplicatesFail is enabled and the default resolver's candidate *)
(* key already exists, the completion callback receives an error naming    *)
(* the key and the transform stops: from the moment the clash is detected  *)
(* no key is inserted into or deleted from the document set, and no        *)
(* document's path or contents changes.                                    *)
(***************************************************************************)
C4_ClashAbortsThePass ==
    atClash # <<>> =>
        /\ \E c \in 1..Len(doneCalls) :
             doneCalls[c].inv = inv /\ doneCalls[c].err.t = "string"
        /\ files = atClash[1].files
        /\ \A d \in DocIds :
             /\ data[d].path = atClash[1].data[d].path
             /\ data[d].contents = atClash[1].data[d].contents

(***************************************************************************)
(* C5: one invocation of the transform calls the completion callback       *)
(* exactly once: never twice, and once when all is over.                   *)
(***************************************************************************)
CallsOf(n) == {c \in 1..Len(doneCalls) : doneCalls[c].inv = n}

C5_DoneExactlyOnce ==
    /\ \A n \in 1..inv : Cardinality(CallsOf(n)) <= 1
    /\ Finished => \A n \in 1..inv : Cardinality(CallsOf(n)) = 1

C7_FlushSparesUnmoved ==
    (/\ options.unique \/ options.duplicatesFail
     /\ pc = "flush"
     /\ j <= Len(flushKeys)
     /\ Has(files, flushKeys[j])
     /\ Get(files, flushKeys[j]) # Get(dupes, flushKeys[j]))
    => Get(files, flushKeys[j]) \in MovedDocs

(***************************************************************************)
(* C8: under relative: true the family collected for a markup document     *)
(* whose key has no directory component is empty, so that relocating it    *)
(* stages no pending move.                                                 *)
(***************************************************************************)
C8_RootFamilyEmpty ==
    \A n \in Relocated :
        (log[n].relative = True /\ Dirname(log[n].file) = ".") =>
            log[n].fam = <<>> /\ log[n].moved = <<>>

(***************************************************************************)
(* C9: the rewrite of a document's contents replaces, for every entry of   *)
(* its moved table, the occurrences of the old relative reference by the   *)
(* new key, never the reverse: contents with no old reference are left     *)
(* unchanged, and a new key already in the contents stays.                 *)
(***************************************************************************)
\* every occurrence of from in s replaced by to, left to right
RECURSIVE ReplaceAll(_, _, _)
ReplaceAll(s, from, to) ==
    IF from = "" \/ ~Contains(s, from) THEN s
    ELSE SubSeq(s, 1, IndexOf(s, from) - 1) \o to
           \o ReplaceAll(Slice(s, IndexOf(s, from) + Len(from) - 1), from, to)

RECURSIVE OldToNew(_, _)
OldToNew(content, moved) ==
    IF moved = <<>> THEN content
    ELSE OldToNew(ReplaceAll(content, moved[1].k, moved[1].v), Tail(moved))

C9_RelinkOldToNew ==
    \A n \in Relocated :
        /\ log[n].after = OldToNew(log[n].before, log[n].moved)
        /\ (\A m \in 1..Len(log[n].moved) :
               ~Contains(log[n].before, log[n].moved[m].k))
             => log[n].after = log[n].before
        /\ \A m \in 1..Len(log[n].moved) :
             Contains(log[n].before, log[n].moved[m].v)
                 => Contains(log[n].after, log[n].moved[m].v)

(***************************************************************************)
(* C10: the flush of an invocation inserts only the family documents       *)
(* staged during that invocation's pass.                                   *)
(***************************************************************************)
C10_FlushOnlyThisPass ==
    (pc = "flush" /\ j <= Len(flushKeys)) => flushKeys[j] \in StagedKeys

====
